---------------------------- MODULE Spec2Model ----------------------------
(***************************************************************************)
(* A model of the question-bank auto-tagger backend:                       *)
(*   backend/main.py        the HTTP handlers (upload, process, stop) and  *)
(*                          the event stream over the log queue            *)
(*   backend/autotagger.py  the key rotators, the two retrying API         *)
(*                          clients, the walker (process_subject) and the  *)
(*                          worker entry point (start_processing)          *)
(*                                                                         *)
(* Threads are modelled by their program counter and locals (thr); the     *)
(* module globals of autotagger.py and the two snapshot files are the      *)
(* shared state.  Each action is the code between two accesses to shared   *)
(* state (the cancellation flag, a file, an external call).                *)
(***************************************************************************)
EXTENDS Integers, Sequences, FiniteSets, TLC

(* ------------------------------ bounds -------------------------------- *)

\* longest credential list drawn for a service
MaxKeys == 2
\* thread slots: how many worker threads could exist at once
MaxThreads == 2
\* non-nominal answers of the external services in one behaviour of Spec
MaxFaults == 1
\* the same budget in ClientSpec beyond the retry budget of one invocation
ExtraFaults == 1

(* ------------------------- program constants -------------------------- *)

max_retries == 10
COOLDOWN_SLEEP == 20
ROTATE_SLEEP == 1
ERROR_SLEEP == 5
STEP_SLEEP == 1
FORCE_REGENERATE_SOLUTIONS_Off == FALSE
FORCE_REGENERATE_SOLUTIONS == TRUE
DONE == "[DONE]"

VARIABLES
    hostAlive,              \* the server process is running
    killPending,            \* a kill_backend thread is sleeping before os.kill
    process_thread,         \* main.process_thread: 0 is None, else a thread slot
    thr,                    \* thread slot -> program counter and locals
    stop_event,             \* autotagger.stop_event
    log_queue,              \* autotagger.log_queue
    GROQ_API_KEYS,          \* configured text-generation keys
    YOUTUBE_API_KEYS,       \* configured video-search keys
    current_groq_key_index, \* 0-based cursor, as in the code
    client,                 \* key the Groq client was built with, or "None"
    current_yt_key_index,
    youtube,                \* key the YouTube client was built with, or "None"
    input_json,             \* contents of input.json
    output_json,            \* contents of output.json
    stream,                 \* the event_stream generator of the attached consumer
    faultsLeft              \* non-nominal external answers still allowed

vars == <<hostAlive, killPending, process_thread, thr, stop_event, log_queue,
          GROQ_API_KEYS, YOUTUBE_API_KEYS, current_groq_key_index, client,
          current_yt_key_index, youtube, input_json, output_json, stream,
          faultsLeft>>

keyVars == <<GROQ_API_KEYS, YOUTUBE_API_KEYS>>
groqVars == <<current_groq_key_index, client>>
ytVars == <<current_yt_key_index, youtube>>
fileVars == <<input_json, output_json>>
hostVars == <<hostAlive, killPending, process_thread>>

Threads == 1..MaxThreads

(* ----------------------------- documents ------------------------------ *)

\* A question keeps the two generated fields; "missing" is an absent key,
\* "null" an explicit JSON null.
Question(v, s) == [video |-> v, solution |-> s]
FreshQ == Question("missing", "missing")

\* What a snapshot file can hold: nothing (no file), bytes that are not
\* JSON, JSON that is falsy in Python ({} [] null 0), JSON of another shape
\* than a question bank (a non-empty list), or a question bank with its
\* units, each a sequence of questions.
File(kind) == [kind |-> kind, units |-> <<>>]
Doc(units) == [kind |-> "doc", units |-> units]
NoData == File("none")

\* The question banks drawn as input: fresh ones of several shapes, and a
\* previously processed bank uploaded again.
FreshDocs ==
    { Doc(<<>>),
      Doc(<< <<>>, <<FreshQ>> >>),
      Doc(<< <<FreshQ>>, <<FreshQ>> >>) }
TaggedDocs ==
    { Doc(<< <<Question("ref", "text"), Question("null", "missing")>> >>) }
InputFiles ==
    {File("missing"), File("invalid"), File("falsy"), File("wrongshape")}
        \cup FreshDocs \cup TaggedDocs

\* json.load of a file: None for a missing file or invalid JSON
\* (load_json_file catches both), else the parsed value.
load_json_file(f) ==
    IF f.kind \in {"missing", "invalid"} THEN NoData ELSE f

\* Python truthiness of a loaded value ("if not data_to_process").
Truthy(d) == d.kind \in {"doc", "wrongshape"}

\* sum(len(unit.questions) for unit in units)
RECURSIVE SumLen(_)
SumLen(us) == IF us = <<>> THEN 0 ELSE Len(Head(us)) + SumLen(Tail(us))
count_total_questions(d) == SumLen(d.units)

(* ----------------------------- messages ------------------------------- *)

\* A queue message: a printed line (k = "text", v names the line) or a
\* structured event (k is its "type", v its distinguishing field), or the
\* sentinel.  n numbers the messages a thread puts, in order; it is not in
\* the program and only lets the consumer's order be stated.
T(label) == [k |-> "text", v |-> label]
E(type, v) == [k |-> type, v |-> v]
Sentinel == [k |-> DONE, v |-> DONE]

Numbered(n0, ms) == [i \in 1..Len(ms) |-> [k |-> ms[i].k, v |-> ms[i].v, n |-> n0 + i]]

RECURSIVE CountKind(_, _)
CountKind(ms, kind) ==
    IF ms = <<>> THEN 0
    ELSE (IF Head(ms).k = kind THEN 1 ELSE 0) + CountKind(Tail(ms), kind)

(* ------------------------- credential lists --------------------------- *)

\* GROQ_API_KEYS / YOUTUBE_API_KEYS after the comma split of the
\* environment value: a list of 0..MaxKeys keys.
KeyList(prefix, len) == [i \in 1..len |-> <<prefix, i>>]
KeyLists(prefix) == { KeyList(prefix, len) : len \in 0..MaxKeys }
NoKey == <<"None", 0>>

\* client = Groq(api_key=KEYS[index]) when keys are configured, else None;
\* KEYS[index] raises IndexError for an index outside the list.
BuildClient(keys, index) ==
    IF keys = <<>> THEN NoKey
    ELSE IF index + 1 \in DOMAIN keys THEN keys[index + 1]
    ELSE <<"IndexError", index>>

\* (index + 1) % len(KEYS), the cursor after a switch.
NextIndex_NoWrap(index, len) == index + 1
NextIndex(index, len) == (index + 1) % len

(* ------------------------------ threads ------------------------------- *)

\* The locals of a worker thread.  The last block is bookkeeping that the
\* program does not hold: what the thread has done in this run.
NewThread(pc) ==
    [ pc |-> pc,
      data |-> NoData,            \* data_to_process / data
      u |-> 0, q |-> 0,           \* u_idx + 1, q_idx + 1
      modified |-> FALSE,         \* modified_this_step
      result |-> "None",          \* what the last client call returned
      search_query |-> "None",    \* the query handed to the video search
      attempt |-> 0,              \* external calls made by the client invocation
      keys_tried |-> 0,           \* keys_tried_in_this_attempt / keys_tried
      slept |-> 0,                \* duration of the last time.sleep
      outcome |-> "none",         \* how the last external call ended
      nput |-> 0,                 \* messages put on the queue
      nstatus |-> 0,              \* status events put
      ndone |-> 0,                \* sentinels put
      last |-> "none",            \* kind of the last message put
      status |-> "none",          \* value of the last status event put
      ncalls |-> 0,               \* external calls started by the walker
      observed |-> FALSE,         \* a checkpoint saw the cancellation flag
      walked |-> FALSE,           \* process_subject was entered
      saved |-> FALSE,            \* the final save_json_file was done
      crashed |-> FALSE,          \* the thread died of an uncaught exception
      source |-> "none",          \* the snapshot the document was loaded from
      loaded |-> NoData,          \* the document as it was loaded
      started_with |-> NoData,    \* input.json at the time the thread was started
      stop_requested |-> FALSE ]  \* a Stop was handled while the thread was alive

Alive(t) == thr[t].pc \notin {"unborn", "dead"}

\* "not process_thread or not process_thread.is_alive()" negated: a worker
\* is running.
WorkerRunning_Never == FALSE
WorkerRunning == process_thread # 0 /\ Alive(process_thread)

\* The value of the last status event among ms, else the one before.
RECURSIVE LastStatus(_, _)
LastStatus(before, ms) ==
    IF ms = <<>> THEN before
    ELSE LastStatus(IF Head(ms).k = "status" THEN Head(ms).v ELSE before, Tail(ms))

\* Thread t goes on as record r and puts the messages ms, in order.
Emit(t, r, ms) ==
    /\ thr' = [thr EXCEPT ![t] =
                 [r EXCEPT !.nput = @ + Len(ms),
                           !.nstatus = @ + CountKind(ms, "status"),
                           !.ndone = @ + CountKind(ms, DONE),
                           !.status = LastStatus(@, ms),
                           !.last = IF ms = <<>> THEN @ ELSE ms[Len(ms)].k]]
    /\ log_queue' = log_queue \o Numbered(thr[t].nput, ms)

(* ------------------------------- Init --------------------------------- *)

\* Module import of autotagger.py: the warnings printed for an empty key
\* list are already on the queue.
ImportWarnings(gk, yk) ==
    (IF gk = <<>> THEN <<T("warn_no_groq_keys")>> ELSE <<>>)
        \o (IF yk = <<>> THEN <<T("warn_no_youtube_keys")>> ELSE <<>>)

InitWith(gk, yk, inp, out, budget, t1) ==
    /\ hostAlive = TRUE
    /\ killPending = FALSE
    /\ process_thread = 0
    /\ thr = [t \in Threads |-> IF t = 1 THEN t1 ELSE NewThread("unborn")]
    /\ stop_event = FALSE
    /\ log_queue = Numbered(0 - 2, ImportWarnings(gk, yk))
    /\ GROQ_API_KEYS = gk
    /\ YOUTUBE_API_KEYS = yk
    /\ current_groq_key_index = 0
    /\ client = BuildClient(gk, 0)
    /\ current_yt_key_index = 0
    /\ youtube = BuildClient(yk, 0)
    /\ input_json = inp
    /\ output_json = out
    /\ stream = [pc |-> "free", wrap |-> "none", k |-> "none", v |-> "none", n |-> 0]
    /\ faultsLeft = budget

Init ==
    \E gk \in KeyLists("groq"), yk \in KeyLists("yt"), inp \in InputFiles :
        InitWith(gk, yk, inp, File("missing"), MaxFaults, NewThread("unborn"))

(* --------------------- save_json_file / the walk ----------------------- *)

\* json.dump(data) into output.json: the file then holds the document.
save_json_file(data) == data

\* question.get('video') / question.get('solution') as a Python condition:
\* a missing key and an explicit null are both falsy.
HasField(value) == value \notin {"missing", "null"}

CurQ(r) == r.data.units[r.u][r.q]
SetVideo(r, v) == [r EXCEPT !.data.units[r.u][r.q].video = v]
\* An assignment that lands on the first question of the last unit.
SetSolution_LastUnit(r, v) == [r EXCEPT !.data.units[Len(r.data.units)][1].solution = v]
SetSolution(r, v) == [r EXCEPT !.data.units[r.u][r.q].solution = v]

\* The lines and events at the head of a question's iteration
\* (autotagger.py 325-343).
QuestionHeader ==
    <<T("question"), E("q_details", "text"), E("progress", "current")>>

\* A checkpoint: "if stop_event.is_set(): return data".  Where the walker
\* is after the check: out of process_subject, or on to what follows.
AfterCheckpoint_Ignore(flag, next) == next
AfterCheckpoint(flag, next) == IF flag THEN "sp_save" ELSE next

\* The for loops of process_subject: from unit u, the next place of the
\* walk.  A unit with questions starts at its first question; the loop over
\* units ends at the final status.
EnterUnit(r, u) ==
    IF u > Len(r.data.units) THEN [r EXCEPT !.pc = "ps_final", !.u = 0, !.q = 0]
    ELSE [r EXCEPT !.pc = "unit_chk", !.u = u, !.q = 0]

\* After the body of question (u, q): the summary of the question, then
\* the next question of the unit or the next unit.
QuestionSummary(r) ==
    IF r.modified THEN <<T("progress_saved"), E("q_details", "totalTime")>> ELSE <<>>

\* A walk that ends after the question in hand.
NextQuestion_EndWalk(r) == [r EXCEPT !.pc = "ps_final", !.modified = FALSE]
NextQuestion(r) ==
    IF r.q < Len(r.data.units[r.u])
    THEN [r EXCEPT !.pc = "video_chk", !.q = r.q + 1, !.modified = FALSE]
    ELSE EnterUnit([r EXCEPT !.modified = FALSE], r.u + 1)

\* Messages of moving to the next question, if there is one in the unit.
NextQuestionMsgs(r) ==
    QuestionSummary(r) \o (IF r.q < Len(r.data.units[r.u]) THEN QuestionHeader ELSE <<>>)

(* -------------------------- start_processing -------------------------- *)

\* threading.Event.clear(): the flag afterwards.
Event_clear_Noop(flag) == flag
Event_clear(flag) == FALSE

\* stop_event.clear(), the first statement of the worker thread.
sp_clear(t) ==
    /\ hostAlive
    /\ thr[t].pc = "sp_clear"
    /\ stop_event' = Event_clear(stop_event)
    /\ thr' = [thr EXCEPT ![t].pc = "sp_exists"]
    /\ UNCHANGED <<hostVars, log_queue, keyVars, groqVars, ytVars, fileVars,
                   stream, faultsLeft>>

\* os.path.exists(OUTPUT_FILENAME)
sp_exists(t) ==
    /\ hostAlive
    /\ thr[t].pc = "sp_exists"
    /\ IF output_json.kind # "missing"
       THEN Emit(t, [thr[t] EXCEPT !.pc = "sp_load_out"], <<T("resuming")>>)
       ELSE Emit(t, [thr[t] EXCEPT !.pc = "sp_load_in"], <<T("loading_fresh")>>)
    /\ UNCHANGED <<hostVars, stop_event, keyVars, groqVars, ytVars, fileVars,
                   stream, faultsLeft>>

LoadError(f) ==
    IF f.kind = "missing" THEN <<T("file_not_found")>>
    ELSE IF f.kind = "invalid" THEN <<T("not_valid_json")>>
    ELSE <<>>

\* data_to_process = load_json_file(OUTPUT_FILENAME)
sp_load_out(t) ==
    /\ hostAlive
    /\ thr[t].pc = "sp_load_out"
    /\ LET d == load_json_file(output_json) IN
       IF Truthy(d)
       THEN Emit(t, [thr[t] EXCEPT !.pc = "ps_start", !.data = d,
                                   !.source = "output", !.loaded = d], <<>>)
       ELSE Emit(t, [thr[t] EXCEPT !.pc = "sp_load_in"],
                 LoadError(output_json) \o <<T("loading_fresh")>>)
    /\ UNCHANGED <<hostVars, stop_event, keyVars, groqVars, ytVars, fileVars,
                   stream, faultsLeft>>

\* data_to_process = load_json_file(INPUT_FILENAME), and the else branch
\* of "if data_to_process".
sp_load_in(t) ==
    /\ hostAlive
    /\ thr[t].pc = "sp_load_in"
    /\ LET d == load_json_file(input_json) IN
       IF Truthy(d)
       THEN Emit(t, [thr[t] EXCEPT !.pc = "ps_start", !.data = d,
                                   !.source = "input", !.loaded = d],
                 LoadError(input_json))
       ELSE Emit(t, [thr[t] EXCEPT !.pc = "sp_done"],
                 LoadError(input_json) \o <<T("exiting_could_not_load")>>)
    /\ UNCHANGED <<hostVars, stop_event, keyVars, groqVars, ytVars, fileVars,
                   stream, faultsLeft>>

\* save_json_file(OUTPUT_FILENAME, data_to_process) after the walk.
sp_save(t) ==
    /\ hostAlive
    /\ thr[t].pc = "sp_save"
    /\ output_json' = save_json_file(thr[t].data)
    /\ thr' = [thr EXCEPT ![t].pc = "sp_done", ![t].saved = TRUE]
    /\ UNCHANGED <<hostVars, stop_event, log_queue, keyVars, groqVars, ytVars,
                   input_json, stream, faultsLeft>>

\* log_queue.put("[DONE]")
sp_done(t) ==
    /\ hostAlive
    /\ thr[t].pc = "sp_done"
    /\ Emit(t, [thr[t] EXCEPT !.pc = "exit"], <<Sentinel>>)
    /\ UNCHANGED <<hostVars, stop_event, keyVars, groqVars, ytVars, fileVars,
                   stream, faultsLeft>>

\* What is left of a thread that has ended: its bookkeeping.
Ended(r) ==
    [NewThread("dead") EXCEPT !.nput = r.nput, !.nstatus = r.nstatus,
        !.ndone = r.ndone, !.last = r.last, !.status = r.status,
        !.ncalls = r.ncalls,
        !.observed = r.observed, !.walked = r.walked, !.saved = r.saved,
        !.crashed = r.crashed, !.source = r.source]

\* start_processing returns: the thread is no longer alive.
thread_exit(t) ==
    /\ hostAlive
    /\ thr[t].pc = "exit"
    /\ thr' = [thr EXCEPT ![t] = Ended(thr[t])]
    /\ UNCHANGED <<hostVars, stop_event, log_queue, keyVars, groqVars, ytVars,
                   fileVars, stream, faultsLeft>>

(* --------------------------- process_subject -------------------------- *)

wUnchanged == <<hostVars, stop_event, keyVars, groqVars, ytVars, fileVars,
                stream, faultsLeft>>

\* data.get(...) on a value that is not a JSON object raises; nothing in
\* start_processing catches it and the thread dies.
ps_raises(t) ==
    /\ hostAlive
    /\ thr[t].pc = "ps_start"
    /\ thr[t].data.kind = "wrongshape"
    /\ thr' = [thr EXCEPT ![t] = Ended([thr[t] EXCEPT !.crashed = TRUE, !.walked = TRUE])]
    /\ UNCHANGED <<log_queue, wUnchanged>>

\* The banner, the first progress event and the two api_key events, then
\* the loop over the units (autotagger.py 300-317).
ps_start(t) ==
    /\ hostAlive
    /\ thr[t].pc = "ps_start"
    /\ thr[t].data.kind = "doc"
    /\ Emit(t, EnterUnit([thr[t] EXCEPT !.walked = TRUE], 1),
            <<T("banner"), T("starting"), T("total_questions"), T("banner"),
              E("progress", "0"), E("api_key", "Groq Active"),
              E("api_key", "YouTube Active")>>)
    /\ UNCHANGED wUnchanged

\* The walker leaves process_subject at a checkpoint that saw the flag.
Cancelled(r) == [r EXCEPT !.pc = "sp_save", !.observed = TRUE]

\* Checkpoint at the start of a unit (318-320), then the first question of
\* the unit or the next unit.
unit_checkpoint(t) ==
    /\ hostAlive
    /\ thr[t].pc = "unit_chk"
    /\ LET r == thr[t]
           inUnit == IF Len(r.data.units[r.u]) > 0
                     THEN [r EXCEPT !.pc = "video_chk", !.q = 1, !.modified = FALSE]
                     ELSE EnterUnit(r, r.u + 1)
           pc2 == AfterCheckpoint(stop_event, inUnit.pc)
       IN  IF pc2 = "sp_save"
           THEN Emit(t, Cancelled(r),
                     <<T("cancelled_by_user")>>)
           ELSE Emit(t, inUnit,
                     IF Len(r.data.units[r.u]) > 0 THEN QuestionHeader ELSE <<>>)
    /\ UNCHANGED wUnchanged

\* Checkpoint before the video step (346) and the test of the video field
\* (348): start the query generation, or skip the step.
video_checkpoint(t) ==
    /\ hostAlive
    /\ thr[t].pc = "video_chk"
    /\ LET r == thr[t]
           step == IF ~HasField(CurQ(r).video) THEN "q_gen" ELSE "sol_chk"
           pc2 == AfterCheckpoint(stop_event, step)
       IN  IF pc2 = "sp_save"
           THEN Emit(t, Cancelled(r), <<>>)
           ELSE IF pc2 = "q_gen"
           THEN Emit(t, [r EXCEPT !.pc = "q_gen", !.attempt = 0, !.keys_tried = 0,
                                  !.result = "None", !.observed = @ \/ stop_event],
                     <<T("step1_video_search"), T("generating_query"),
                       E("active_step", "Generating Query")>>)
           ELSE Emit(t, [r EXCEPT !.pc = "sol_chk", !.observed = @ \/ stop_event],
                     <<T("video_already_exists")>>)
    /\ UNCHANGED wUnchanged

StepTime(field) == <<T("step_time"), E("q_details", field)>>

\* "if search_query:", "if video_data:", "if solution_text:" on what a
\* client returned: None and the empty string are falsy.
NonEmpty_Always(result) == TRUE
NonEmpty(result) == result \notin {"None", "empty"}

\* Checkpoint after the query generation (356) and the test of the query
\* (358): start the search, or give the video step up.
query_checkpoint(t) ==
    /\ hostAlive
    /\ thr[t].pc = "q_after"
    /\ LET r == thr[t]
           step == IF NonEmpty(r.result) THEN "yt" ELSE "sol_chk"
           pc2 == AfterCheckpoint(stop_event, step)
       IN  IF pc2 = "sp_save"
           THEN Emit(t, Cancelled(r), <<>>)
           ELSE IF pc2 = "yt"
           THEN Emit(t, [r EXCEPT !.pc = "yt", !.search_query = r.result,
                                  !.attempt = 0, !.keys_tried = 0,
                                  !.observed = @ \/ stop_event],
                     <<T("query_done"), E("q_details", "searchQuery"),
                       T("searching_youtube"), E("active_step", "Searching YouTube")>>)
           ELSE Emit(t, [r EXCEPT !.pc = "sol_chk", !.slept = STEP_SLEEP,
                                  !.observed = @ \/ stop_event],
                     <<T("failed_to_generate_query")>> \o StepTime("videoTime"))
    /\ UNCHANGED wUnchanged

\* "if video_data: question['video'] = video_data ... else:
\* question['video'] = None" (365-372).
video_set(t) ==
    /\ hostAlive
    /\ thr[t].pc = "v_set"
    /\ LET r == thr[t] IN
       IF NonEmpty(r.result)
       THEN Emit(t, [SetVideo(r, r.result) EXCEPT !.pc = "v_save"], <<T("found")>>)
       ELSE Emit(t, [SetVideo(r, "null") EXCEPT !.pc = "sol_chk", !.slept = STEP_SLEEP],
                 <<T("no_results_found")>> \o StepTime("videoTime"))
    /\ UNCHANGED wUnchanged

\* save_json_file(OUTPUT_FILENAME, data) after a video was found (368).
video_save(t) ==
    /\ hostAlive
    /\ thr[t].pc = "v_save"
    /\ output_json' = save_json_file(thr[t].data)
    /\ Emit(t, [thr[t] EXCEPT !.pc = "sol_chk", !.modified = TRUE, !.slept = STEP_SLEEP],
            StepTime("videoTime"))
    /\ UNCHANGED <<hostVars, stop_event, keyVars, groqVars, ytVars, input_json,
                   stream, faultsLeft>>

\* Checkpoint before the solution step (383) and the test of 385.
solution_checkpoint(t) ==
    /\ hostAlive
    /\ thr[t].pc = "sol_chk"
    /\ LET r == thr[t]
           step == IF FORCE_REGENERATE_SOLUTIONS \/ ~HasField(CurQ(r).solution)
                   THEN "s_gen" ELSE "next"
           pc2 == AfterCheckpoint(stop_event, step)
       IN  IF pc2 = "sp_save"
           THEN Emit(t, Cancelled(r), <<>>)
           ELSE IF pc2 = "s_gen"
           THEN Emit(t, [r EXCEPT !.pc = "s_gen", !.attempt = 0, !.keys_tried = 0,
                                  !.result = "None", !.observed = @ \/ stop_event],
                     <<T("step2_solution"), E("active_step", "Generating Solution"),
                       T("generating")>>)
           ELSE Emit(t, [NextQuestion(r) EXCEPT !.observed = @ \/ stop_event],
                     <<T("solution_already_exists")>> \o NextQuestionMsgs(r))
    /\ UNCHANGED wUnchanged

\* Checkpoint after the solution generation (399) and the test of the text
\* (401): the assignment question['solution'] = solution_text, or failure.
solution_checkpoint_after(t) ==
    /\ hostAlive
    /\ thr[t].pc = "s_after"
    /\ LET r == thr[t]
           step == IF NonEmpty(r.result) THEN "s_save" ELSE "next"
           pc2 == AfterCheckpoint(stop_event, step)
       IN  IF pc2 = "sp_save"
           THEN Emit(t, Cancelled(r), <<>>)
           ELSE IF pc2 = "s_save"
           THEN Emit(t, [SetSolution(r, r.result) EXCEPT !.pc = "s_save",
                                                       !.observed = @ \/ stop_event],
                     <<T("generated"), E("q_details", "charCount")>>)
           ELSE Emit(t, [NextQuestion([r EXCEPT !.slept = STEP_SLEEP])
                           EXCEPT !.observed = @ \/ stop_event],
                     <<T("failed_to_generate_solution")>> \o StepTime("solutionTime")
                        \o NextQuestionMsgs(r))
    /\ UNCHANGED wUnchanged

\* save_json_file(OUTPUT_FILENAME, data) after a solution was set (417),
\* then the end of the question's iteration.
solution_save(t) ==
    /\ hostAlive
    /\ thr[t].pc = "s_save"
    /\ output_json' = save_json_file(thr[t].data)
    /\ LET r == [thr[t] EXCEPT !.modified = TRUE, !.slept = STEP_SLEEP] IN
       Emit(t, NextQuestion(r), StepTime("solutionTime") \o NextQuestionMsgs(r))
    /\ UNCHANGED <<hostVars, stop_event, keyVars, groqVars, ytVars, input_json,
                   stream, faultsLeft>>

\* The final status (442-449).
ps_final(t) ==
    /\ hostAlive
    /\ thr[t].pc = "ps_final"
    /\ Emit(t, [thr[t] EXCEPT !.pc = "sp_save"],
            <<T("banner")>>
              \o (IF stop_event
                  THEN <<T("processing_stopped"), E("status", "Stopped")>>
                  ELSE <<T("processing_complete"), E("status", "Complete")>>)
              \o <<T("banner")>>)
    /\ UNCHANGED wUnchanged

(* ------------------------ generate_with_retry ------------------------- *)

GenPcs == {"q_gen", "s_gen", "h_gen"}
GenReturn(pc) ==
    IF pc = "q_gen" THEN "q_after" ELSE IF pc = "s_gen" THEN "s_after" ELSE "h_idle"

\* "for attempt in range(max_retries)": another iteration follows.
RetryLoopContinues_OneMore(attempt) == attempt <= max_retries
RetryLoopContinues(attempt) == attempt < max_retries

\* "if keys_tried_in_this_attempt >= len(GROQ_API_KEYS)"
AllKeysTried_Late(tried, len) == tried > len
AllKeysTried(tried, len) == tried >= len

\* switch_groq_api_key(): the cursor it leaves (71-84).
switch_groq_index ==
    IF GROQ_API_KEYS = <<>> THEN current_groq_key_index
    ELSE NextIndex(current_groq_key_index, Len(GROQ_API_KEYS))
switch_groq_msgs ==
    IF GROQ_API_KEYS = <<>> THEN <<>>
    ELSE <<T("switching_groq_key"), E("api_key", "Groq Switching")>>

\* Answers of the completion API to one call: text, text that is empty
\* once stripped, a RateLimitError, any other exception.
GenOutcomes == {"ok", "empty", "RateLimitError", "Exception"}

\* "except RateLimitError:" catches the exception; any other one falls to
\* "except Exception".
IsRateLimit_Any(o) == o \in {"RateLimitError", "Exception"}
IsRateLimit(o) == o = "RateLimitError"

\* "if not client: ... return None" (107-109)
gen_no_client(t) ==
    /\ hostAlive
    /\ thr[t].pc \in GenPcs
    /\ client = NoKey
    /\ Emit(t, [thr[t] EXCEPT !.pc = GenReturn(thr[t].pc), !.result = "None"],
            <<T("no_groq_client")>>)
    /\ UNCHANGED wUnchanged

\* One iteration of the retry loop: the call and its handler (113-144).
gen_call(t, o) ==
    /\ hostAlive
    /\ thr[t].pc \in GenPcs
    /\ client # NoKey
    /\ RetryLoopContinues(thr[t].attempt)
    /\ o = "ok" \/ faultsLeft > 0
    /\ faultsLeft' = IF o = "ok" THEN faultsLeft ELSE faultsLeft - 1
    /\ LET r == [thr[t] EXCEPT !.attempt = @ + 1, !.ncalls = @ + 1, !.outcome = o]
           tried == r.keys_tried + 1
       IN
       CASE o = "ok" ->
              /\ Emit(t, [r EXCEPT !.pc = GenReturn(r.pc), !.result = "text"], <<>>)
              /\ UNCHANGED groqVars
         [] o = "empty" ->
              /\ Emit(t, [r EXCEPT !.pc = GenReturn(r.pc), !.result = "empty"], <<>>)
              /\ UNCHANGED groqVars
         [] o \in {"RateLimitError", "Exception"} /\ IsRateLimit(o) ->
              /\ current_groq_key_index' = switch_groq_index
              /\ client' = BuildClient(GROQ_API_KEYS, switch_groq_index)
              /\ IF AllKeysTried(tried, Len(GROQ_API_KEYS))
                 THEN Emit(t, [r EXCEPT !.keys_tried = 0, !.slept = COOLDOWN_SLEEP],
                           <<T("groq_rate_limit"), E("api_key", "Groq Exhausted")>>
                             \o switch_groq_msgs
                             \o <<T("all_groq_keys_exhausted"), T("retrying")>>)
                 ELSE Emit(t, [r EXCEPT !.keys_tried = tried, !.slept = ROTATE_SLEEP],
                           <<T("groq_rate_limit"), E("api_key", "Groq Exhausted")>>
                             \o switch_groq_msgs \o <<T("retrying")>>)
         [] o \in {"RateLimitError", "Exception"} /\ ~IsRateLimit(o) ->
              /\ Emit(t, [r EXCEPT !.slept = ERROR_SLEEP], <<T("groq_error")>>)
              /\ UNCHANGED groqVars
    /\ UNCHANGED <<hostVars, stop_event, keyVars, ytVars, fileVars, stream>>

\* The loop is over: "Max retries exceeded", return None (146-147).
gen_exhausted(t) ==
    /\ hostAlive
    /\ thr[t].pc \in GenPcs
    /\ client # NoKey
    /\ ~RetryLoopContinues(thr[t].attempt)
    /\ Emit(t, [thr[t] EXCEPT !.pc = GenReturn(thr[t].pc), !.result = "None"],
            <<T("max_retries_exceeded")>>)
    /\ UNCHANGED wUnchanged

(* ------------------------ search_youtube_video ------------------------ *)

YtPcs == {"yt", "h_yt"}
YtReturn(pc) == IF pc = "yt" THEN "v_set" ELSE "h_idle"

\* max_attempts = len(YOUTUBE_API_KEYS) if YOUTUBE_API_KEYS else 1
max_attempts == IF YOUTUBE_API_KEYS # <<>> THEN Len(YOUTUBE_API_KEYS) ELSE 1

\* "if len(YOUTUBE_API_KEYS) > 1": another key to rotate to.
HasOtherKey_Always(len) == TRUE
HasOtherKey(len) == len > 1

\* switch_youtube_key(): the cursor it leaves (86-99).
\* switch_youtube_key() that leaves the cursor where it is.
switch_youtube_index_Stay == current_yt_key_index
switch_youtube_index ==
    IF YOUTUBE_API_KEYS = <<>> THEN current_yt_key_index
    ELSE NextIndex(current_yt_key_index, Len(YOUTUBE_API_KEYS))
switch_youtube_msgs ==
    IF YOUTUBE_API_KEYS = <<>> THEN <<>>
    ELSE <<T("switching_youtube_key"), E("api_key", "YouTube Switching")>>

\* Answers of the search API to one call: an item, no item, HttpError 403
\* or 400, another HttpError, any other exception.
YtOutcomes == {"found", "noitems", "quota", "httperr", "exception"}

\* "if not query: return None" (240)
yt_no_query(t) ==
    /\ hostAlive
    /\ thr[t].pc \in YtPcs
    /\ thr[t].search_query # "text"
    /\ Emit(t, [thr[t] EXCEPT !.pc = YtReturn(thr[t].pc), !.result = "None"], <<>>)
    /\ UNCHANGED wUnchanged

\* "if not youtube: ... return None" (241-243)
yt_no_client(t) ==
    /\ hostAlive
    /\ thr[t].pc \in YtPcs
    /\ thr[t].search_query = "text"
    /\ youtube = NoKey
    /\ Emit(t, [thr[t] EXCEPT !.pc = YtReturn(thr[t].pc), !.result = "None"],
            <<T("no_youtube_client")>>)
    /\ UNCHANGED wUnchanged

\* One iteration of "while keys_tried < max_attempts": the call and its
\* handler, and the lines after the loop when this was its last iteration
\* (248-287).
yt_call(t, o) ==
    /\ hostAlive
    /\ thr[t].pc \in YtPcs
    /\ thr[t].search_query = "text"
    /\ youtube # NoKey
    /\ thr[t].keys_tried < max_attempts
    /\ o = "found" \/ faultsLeft > 0
    /\ faultsLeft' = IF o = "found" THEN faultsLeft ELSE faultsLeft - 1
    /\ LET r == [thr[t] EXCEPT !.attempt = @ + 1, !.ncalls = @ + 1, !.outcome = o]
           back == [r EXCEPT !.pc = YtReturn(r.pc), !.result = "None"]
           tried == r.keys_tried + 1
       IN
       CASE o = "found" ->
              /\ Emit(t, [r EXCEPT !.pc = YtReturn(r.pc), !.result = "ref"], <<>>)
              /\ UNCHANGED ytVars
         [] o = "noitems" ->
              /\ Emit(t, back, <<>>)
              /\ UNCHANGED ytVars
         [] o = "quota" /\ HasOtherKey(Len(YOUTUBE_API_KEYS)) ->
              /\ current_yt_key_index' = switch_youtube_index
              /\ youtube' = BuildClient(YOUTUBE_API_KEYS, switch_youtube_index)
              /\ IF tried < max_attempts
                 THEN Emit(t, [r EXCEPT !.keys_tried = tried],
                           <<T("youtube_key_failed")>> \o switch_youtube_msgs)
                 ELSE Emit(t, [back EXCEPT !.keys_tried = tried],
                           <<T("youtube_key_failed")>> \o switch_youtube_msgs
                             \o <<T("all_youtube_keys_exhausted")>>)
         [] o = "quota" /\ ~HasOtherKey(Len(YOUTUBE_API_KEYS)) ->
              /\ Emit(t, back, <<T("youtube_key_failed"), T("no_other_keys")>>)
              /\ UNCHANGED ytVars
         [] o = "httperr" ->
              /\ Emit(t, back, <<T("youtube_api_error")>>)
              /\ UNCHANGED ytVars
         [] o = "exception" ->
              /\ Emit(t, back, <<T("youtube_unknown_error")>>)
              /\ UNCHANGED ytVars
    /\ UNCHANGED <<hostVars, stop_event, keyVars, groqVars, fileVars, stream>>

(* ----------------------- the clients on their own --------------------- *)

\* A caller of the two clients outside a walk: any number of invocations,
\* one after the other, on the process-wide cursors.  The caller takes the
\* log of the previous invocation off the queue before the next one.
call_generate(t) ==
    /\ hostAlive
    /\ thr[t].pc = "h_idle"
    /\ thr' = [thr EXCEPT ![t] = NewThread("h_gen")]
    /\ log_queue' = <<>>
    /\ UNCHANGED wUnchanged

Queries == {"text", "empty"}

call_search(t, query) ==
    /\ hostAlive
    /\ thr[t].pc = "h_idle"
    /\ thr' = [thr EXCEPT ![t] = [NewThread("h_yt") EXCEPT !.search_query = query]]
    /\ log_queue' = <<>>
    /\ UNCHANGED wUnchanged

(* --------------------------- the handlers ------------------------------ *)

\* The slot the next Thread object takes: the first one not running.
FreeSlots == { t \in Threads : ~Alive(t) }
FirstFree == CHOOSE t \in FreeSlots : \A t2 \in FreeSlots : t <= t2

\* GET /api/process up to the creation of the response (main.py 40-51): when
\* no worker is alive, empty the queue and start a worker thread.  The
\* generator of the response runs later, when the server iterates it.
process_endpoint ==
    /\ hostAlive
    /\ IF ~WorkerRunning
       THEN /\ FreeSlots # {}
            /\ log_queue' = <<>>
            /\ process_thread' = FirstFree
            /\ thr' = [thr EXCEPT ![FirstFree] =
                         [NewThread("sp_clear") EXCEPT !.started_with = input_json]]
       ELSE UNCHANGED <<log_queue, process_thread, thr>>
    /\ UNCHANGED <<hostAlive, killPending, stop_event, keyVars, groqVars, ytVars,
                   fileVars, stream, faultsLeft>>

\* POST /api/stop (main.py 78-89): set the flag and start kill_backend.
stop_endpoint ==
    /\ hostAlive
    /\ stop_event' = TRUE
    /\ killPending' = TRUE
    /\ thr' = [t \in Threads |->
                 IF Alive(t) THEN [thr[t] EXCEPT !.stop_requested = TRUE] ELSE thr[t]]
    /\ UNCHANGED <<hostAlive, process_thread, log_queue, keyVars, groqVars,
                   ytVars, fileVars, stream, faultsLeft>>

\* kill_backend (main.py 83-86): os.kill(os.getpid(), SIGINT) ends the
\* process at some moment after the stop; its threads, queue and globals
\* are gone, the files stay.
kill_backend ==
    /\ hostAlive
    /\ killPending
    /\ hostAlive' = FALSE
    /\ killPending' = FALSE
    /\ process_thread' = 0
    /\ thr' = [t \in Threads |-> NewThread("unborn")]
    /\ stop_event' = FALSE
    /\ log_queue' = <<>>
    /\ current_groq_key_index' = 0
    /\ client' = BuildClient(GROQ_API_KEYS, 0)
    /\ current_yt_key_index' = 0
    /\ youtube' = BuildClient(YOUTUBE_API_KEYS, 0)
    /\ stream' = [pc |-> "free", wrap |-> "none", k |-> "none", v |-> "none", n |-> 0]
    /\ faultsLeft' = 0
    /\ UNCHANGED <<keyVars, fileVars>>

\* Bodies posted to /api/upload: a question bank of a shape of its own.
UploadBodies == { Doc(<< <<FreshQ, FreshQ>> >>) }

\* POST /api/upload (main.py 22-32): the body becomes input.json and
\* output.json is removed.  The handler does not look at the worker.
upload_file ==
    /\ hostAlive
    /\ \E body \in UploadBodies : input_json' = body
    /\ output_json' = File("missing")
    /\ UNCHANGED <<hostVars, thr, stop_event, log_queue, keyVars, groqVars, ytVars,
                   stream, faultsLeft>>
(* ---------------------------- event_stream ---------------------------- *)

\* The frame a message is sent as (main.py 58-74): the sentinel ends the
\* stream with the termination frame, a structured event (a JSON object
\* with "type") is sent as it is, any other line is wrapped.
Frame(m) ==
    [ pc |-> "loop",
      wrap |-> IF m.k = DONE \/ m.k = "text" THEN "message" ELSE "raw",
      k |-> m.k, v |-> m.v, n |-> m.n ]

\* "if msg == '[DONE]': ... break"
StreamAfter(m) == IF m.k = DONE THEN "ended" ELSE "loop"

\* log_queue.get(): the position of the message a consumer takes.
QueueGetPos_Newest(queue) == Len(queue)
QueueGetPos(queue) == 1

Without(queue, pos) == [i \in 1..(Len(queue) - 1) |-> IF i < pos THEN queue[i] ELSE queue[i + 1]]

\* The server starts the generator of a response: the first frame
\* (main.py 55).  One consumer is attached at a time.
stream_open ==
    /\ hostAlive
    /\ process_thread # 0
    /\ stream.pc \in {"free", "ended"}
    /\ stream' = [pc |-> "loop", wrap |-> "message", k |-> "text",
                  v |-> "Connected to server stream...", n |-> 0]
    /\ UNCHANGED <<hostVars, thr, stop_event, log_queue, keyVars, groqVars, ytVars,
                   fileVars, faultsLeft>>

\* One iteration of the generator's loop: a blocking get and the frame
\* (main.py 56-74).
stream_get ==
    /\ hostAlive
    /\ stream.pc = "loop"
    /\ log_queue # <<>>
    /\ LET pos == QueueGetPos(log_queue)
           m == log_queue[pos]
       IN  /\ log_queue' = Without(log_queue, pos)
           /\ stream' = [Frame(m) EXCEPT !.pc = StreamAfter(m)]
    /\ UNCHANGED <<hostVars, thr, stop_event, keyVars, groqVars, ytVars, fileVars,
                   faultsLeft>>

(* --------------------------- specifications --------------------------- *)

\* A step of worker thread t.
WorkerStep(t) ==
    \/ sp_clear(t)
    \/ sp_exists(t)
    \/ sp_load_out(t)
    \/ sp_load_in(t)
    \/ ps_raises(t)
    \/ ps_start(t)
    \/ unit_checkpoint(t)
    \/ video_checkpoint(t)
    \/ \E o \in GenOutcomes : gen_call(t, o)
    \/ gen_no_client(t)
    \/ query_checkpoint(t)
    \/ yt_no_client(t)
    \/ \E o \in YtOutcomes : yt_call(t, o)
    \/ video_set(t)
    \/ video_save(t)
    \/ solution_checkpoint(t)
    \/ solution_checkpoint_after(t)
    \/ solution_save(t)
    \/ ps_final(t)
    \/ sp_save(t)
    \/ sp_done(t)
    \/ thread_exit(t)

\* The controller and the worker.
Next ==
    \/ process_endpoint
    \/ stop_endpoint
    \/ kill_backend
    \/ \E t \in Threads : sp_clear(t)
    \/ \E t \in Threads : sp_exists(t)
    \/ \E t \in Threads : sp_load_out(t)
    \/ \E t \in Threads : sp_load_in(t)
    \/ \E t \in Threads : ps_raises(t)
    \/ \E t \in Threads : ps_start(t)
    \/ \E t \in Threads : unit_checkpoint(t)
    \/ \E t \in Threads : video_checkpoint(t)
    \/ \E t \in Threads, o \in GenOutcomes : gen_call(t, o)
    \/ \E t \in Threads : gen_no_client(t)
    \/ \E t \in Threads : query_checkpoint(t)
    \/ \E t \in Threads : yt_no_client(t)
    \/ \E t \in Threads, o \in YtOutcomes : yt_call(t, o)
    \/ \E t \in Threads : video_set(t)
    \/ \E t \in Threads : video_save(t)
    \/ \E t \in Threads : solution_checkpoint(t)
    \/ \E t \in Threads : solution_checkpoint_after(t)
    \/ \E t \in Threads : solution_save(t)
    \/ \E t \in Threads : ps_final(t)
    \/ \E t \in Threads : sp_save(t)
    \/ \E t \in Threads : sp_done(t)
    \/ \E t \in Threads : thread_exit(t)

Spec == Init /\ [][Next]_vars

\* The two clients under a caller that invokes them again and again, for
\* every pair of credential lists, with a budget of failures that lets one
\* invocation use up its retries.
ClientInit ==
    \E gk \in KeyLists("groq"), yk \in KeyLists("yt") :
        InitWith(gk, yk, File("missing"), File("missing"),
                 max_retries + ExtraFaults, NewThread("h_idle"))

ClientNext ==
    \/ \E t \in Threads : call_generate(t)
    \/ \E t \in Threads, query \in Queries : call_search(t, query)
    \/ \E t \in Threads, o \in GenOutcomes : gen_call(t, o)
    \/ \E t \in Threads : gen_no_client(t)
    \/ \E t \in Threads : gen_exhausted(t)
    \/ \E t \in Threads : yt_no_query(t)
    \/ \E t \in Threads : yt_no_client(t)
    \/ \E t \in Threads, o \in YtOutcomes : yt_call(t, o)

ClientSpec == ClientInit /\ [][ClientNext]_vars

\* The controller, the worker and one stream consumer.  Every call of
\* GET /api/process returns its own stream, so with a single consumer the
\* endpoint is called only while no stream is running.  The worker thread
\* and the consumer's thread are scheduled fairly: a step of theirs that
\* stays possible is taken.
LiveInit ==
    \E n \in {<<0, 0>>, <<1, 0>>, <<1, 1>>},
       inp \in {File("wrongshape"), Doc(<< <<FreshQ>> >>)} :
        InitWith(KeyList("groq", n[1]), KeyList("yt", n[2]), inp, File("missing"),
                 MaxFaults, NewThread("unborn"))

connect ==
    /\ stream.pc # "loop"
    /\ process_endpoint

LiveNext ==
    \/ connect
    \/ stop_endpoint
    \/ kill_backend
    \/ \E t \in Threads : WorkerStep(t)
    \/ stream_open
    \/ stream_get

LiveSpec ==
    /\ LiveInit
    /\ [][LiveNext]_vars
    /\ WF_vars(\E t \in Threads : WorkerStep(t))
    /\ WF_vars(stream_get)

\* The controller with uploads: Upload at any moment, also while a worker
\* runs.
UploadNext ==
    \/ Next
    \/ upload_file

UploadSpec == Init /\ [][UploadNext]_vars
(* ------------------------------ claims -------------------------------- *)

AliveThreads == { t \in Threads : Alive(t) }

\* C1  At most one worker thread is alive at any time; a thread is started
\* only from a state in which no worker is alive, and while a worker is
\* alive no handler takes anything off the queue.
C1_AtMostOneWorker ==
    /\ [](Cardinality(AliveThreads) <= 1)
    /\ [][(\E t \in Threads : ~Alive(t) /\ Alive(t)') => AliveThreads = {}]_vars
    /\ [][(AliveThreads # {} /\ hostAlive')
            => /\ Len(log_queue') >= Len(log_queue)
               /\ process_thread' = process_thread]_vars

\* A worker is in the middle of a walk with messages on the queue while a
\* stop is pending: a state in which Start is called on a live worker.
C1_Witness ==
    /\ hostAlive /\ killPending
    /\ WorkerRunning
    /\ thr[process_thread].pc = "s_gen"
    /\ Len(log_queue) > 0

\* C2  The walker runs the video step (query generation, search, the
\* assignment of the field) only for a question whose video key is missing.
C2_VideoStepOnlyWhenMissing ==
    \A t \in Threads :
        thr[t].pc \in {"q_gen", "q_after", "yt", "v_set"}
            => CurQ(thr[t]).video = "missing"

\* C3  Once a checkpoint has seen the cancellation flag the walker is out
\* of process_subject, and from then on the thread starts no external call
\* and changes no field of the document.
C3_CooperativeCancellation ==
    /\ [](\A t \in Threads :
            thr[t].observed => thr[t].pc \in {"sp_save", "sp_done", "exit", "dead"})
    /\ [][\A t \in Threads :
            (thr[t].observed /\ thr'[t].observed)
                => /\ thr'[t].ncalls = thr[t].ncalls
                   /\ thr'[t].pc # "dead" => thr'[t].data = thr[t].data]_vars

\* The flag was seen at a checkpoint inside the first question of a bank
\* that has a second unit, after an external call was made.
C3_Witness ==
    \E t \in Threads :
        /\ thr[t].observed
        /\ thr[t].pc = "sp_save"
        /\ thr[t].ncalls > 0
        /\ thr[t].u = 1 /\ thr[t].q = 1
        /\ Len(thr[t].data.units) = 2

\* C4  A worker that entered the walk and put the sentinel has put exactly
\* one status event before it: Stopped if a checkpoint saw the flag.
C4_FinalStatus ==
    \A t \in Threads :
        (thr[t].walked /\ thr[t].ndone > 0)
            => /\ thr[t].nstatus = 1
               /\ thr[t].observed => thr[t].status = "Stopped"

\* C5  A worker thread that has ended put the sentinel exactly once, as its
\* last message, and after the final save when it had loaded a document.
C5_SentinelLast ==
    \A t \in Threads :
        thr[t].pc = "dead"
            => /\ thr[t].ndone = 1
               /\ thr[t].last = DONE
               /\ thr[t].walked => thr[t].saved

\* C6  The single consumer takes the messages of a run in the order the
\* worker put them (each one follows the one before, a run starting at 1);
\* a stream that has ended sent the termination frame last and sends
\* nothing more; and while the host runs, a sentinel on the queue of an
\* attached consumer leads to the end of the stream.
C6_StreamTermination ==
    /\ [][(stream.pc = "loop" /\ stream'.pc # "free" /\ stream' # stream)
            => (stream'.n = 1 \/ stream'.n = stream.n + 1)]_vars
    /\ [](stream.pc = "ended" => (stream.k = DONE /\ stream.wrap = "message"))
    /\ [][(stream.pc = "ended" /\ stream'.pc = "ended") => stream' = stream]_vars
    /\ ((stream.pc = "loop" /\ \E i \in 1..Len(log_queue) : log_queue[i].k = DONE)
          ~> (stream.pc = "ended" \/ ~hostAlive))

\* The stream ended on the sentinel of a run that walked a bank and made
\* external calls.
C6_Witness ==
    /\ stream.pc = "ended"
    /\ stream.n > 20
    /\ \E t \in Threads : thr[t].ncalls > 0 /\ thr[t].nstatus = 1

\* C7  One invocation of generate_with_retry makes at most max_retries
\* external calls, one per step; a successful call returns its text at
\* once, a failed call (rate limit or other) uses up one attempt and stays
\* in the loop; None is returned without a call when no client was built
\* (no key configured), and otherwise only after max_retries failed calls.
C7_RetryBudget ==
    /\ [](\A t \in Threads : thr[t].pc \in GenPcs => thr[t].attempt \in 0..max_retries)
    /\ [][\A t \in Threads :
            (/\ thr[t].pc \in GenPcs
             /\ thr'[t] # thr[t]
             /\ thr'[t].pc \in GenPcs \cup {GenReturn(thr[t].pc)})
            => LET a == thr[t].attempt
                   b == thr'[t].attempt
                   o == thr'[t].outcome
                   returns == thr'[t].pc \notin GenPcs
               IN
               /\ b \in {a, a + 1}
               /\ (b = a + 1 /\ o = "ok") => (returns /\ thr'[t].result = "text")
               /\ (b = a + 1 /\ o = "empty") => (returns /\ thr'[t].result = "empty")
               /\ (b = a + 1 /\ o \in {"RateLimitError", "Exception"}) => ~returns
               /\ b = a => (returns /\ thr'[t].result = "None")
               /\ (returns /\ thr'[t].result = "None")
                    => \/ (a = 0 /\ b = 0 /\ client = NoKey /\ GROQ_API_KEYS = <<>>)
                       \/ (a = max_retries /\ b = max_retries /\ client # NoKey
                             /\ o \in {"RateLimitError", "Exception"})]_vars

\* C7 as stated: None is returned only after all max_retries attempts.
C7_NoneOnlyAfterAllAttempts ==
    [][\A t \in Threads :
         (/\ thr[t].pc \in GenPcs
          /\ thr'[t].pc = GenReturn(thr[t].pc)
          /\ thr'[t].result = "None")
         => thr'[t].attempt = max_retries]_vars

C7_Witness ==
    \E t \in Threads :
        /\ thr[t].pc = "h_idle"
        /\ thr[t].attempt = max_retries
        /\ thr[t].result = "None"
        /\ log_queue # <<>>
        /\ log_queue[Len(log_queue)].v = "max_retries_exceeded"
        /\ client # NoKey

\* C8  A RateLimitError moves the Groq cursor to the next key (cyclically)
\* and counts one rotation; when the count reaches the number of keys the
\* client sleeps the 20 s cooldown and resets the count, otherwise it sleeps
\* 1 s; so at the start of every attempt the count is in 0..L-1.
C8_RateLimitHandling ==
    /\ [](\A t \in Threads :
            (thr[t].pc \in GenPcs /\ client # NoKey)
            => thr[t].keys_tried \in 0..(Len(GROQ_API_KEYS) - 1))
    /\ [][\A t \in Threads :
            (/\ thr[t].pc \in GenPcs
             /\ thr'[t].attempt = thr[t].attempt + 1
             /\ thr'[t].outcome = "RateLimitError")
            => /\ current_groq_key_index'
                    = (current_groq_key_index + 1) % Len(GROQ_API_KEYS)
               /\ client' = GROQ_API_KEYS[current_groq_key_index' + 1]
               /\ IF thr[t].keys_tried + 1 = Len(GROQ_API_KEYS)
                  THEN thr'[t].slept = COOLDOWN_SLEEP /\ thr'[t].keys_tried = 0
                  ELSE /\ thr'[t].slept = ROTATE_SLEEP
                       /\ thr'[t].keys_tried = thr[t].keys_tried + 1]_vars

C8_Witness ==
    \E t \in Threads :
        /\ thr[t].pc = "h_gen"
        /\ Len(GROQ_API_KEYS) = MaxKeys
        /\ thr[t].outcome = "RateLimitError"
        /\ thr[t].slept = COOLDOWN_SLEEP
        /\ thr[t].keys_tried = 0
        /\ thr[t].attempt = 2 * MaxKeys

YtLen == Len(YOUTUBE_API_KEYS)

\* C9  One invocation of search_youtube_video makes at most max(1, L)
\* search calls, and at least one when a key is configured and the query is
\* not empty (with no key, or an empty query, it returns None without a
\* call); a call is followed by another only after a 403/400 error with
\* L > 1, the cursor having advanced by one; a 403/400 error with L = 1, or
\* any other error, returns None at once without rotation.
C9_SearchRetryPolicy ==
    /\ [](\A t \in Threads :
            thr[t].pc \in YtPcs => thr[t].attempt <= (IF YtLen > 1 THEN YtLen ELSE 1))
    /\ [][\A t \in Threads :
            (/\ thr[t].pc \in YtPcs
             /\ thr'[t] # thr[t]
             /\ thr'[t].pc \in YtPcs \cup {YtReturn(thr[t].pc)})
            => LET a == thr[t].attempt
                   b == thr'[t].attempt
                   o == thr'[t].outcome
                   returns == thr'[t].pc \notin YtPcs
                   rotated == CountKind(log_queue', "api_key")
                                > CountKind(log_queue, "api_key")
               IN
               /\ b \in {a, a + 1}
               /\ (returns /\ YtLen >= 1 /\ thr[t].search_query = "text") => b >= 1
               /\ b = a => /\ returns /\ b = 0 /\ thr'[t].result = "None"
                           /\ (YtLen = 0 \/ thr[t].search_query # "text")
               /\ (b = a + 1 /\ ~returns)
                    => /\ o = "quota" /\ YtLen > 1 /\ rotated
                       /\ current_yt_key_index' = (current_yt_key_index + 1) % YtLen
               /\ (b = a + 1 /\ (o \in {"httperr", "exception"} \/ (o = "quota" /\ YtLen = 1)))
                    => /\ returns /\ thr'[t].result = "None" /\ ~rotated
                       /\ current_yt_key_index' = current_yt_key_index
                       /\ youtube' = youtube]_vars

\* C9 as stated: every invocation makes at least one search call.
C9_AtLeastOneCall ==
    [][\A t \in Threads :
         (/\ thr[t].pc \in YtPcs
          /\ thr[t].search_query = "text"
          /\ thr'[t].pc = YtReturn(thr[t].pc))
         => thr'[t].attempt >= 1]_vars

C9_Witness ==
    \E t \in Threads :
        /\ thr[t].pc = "h_idle"
        /\ YtLen = MaxKeys
        /\ thr[t].search_query = "text"
        /\ thr[t].attempt = MaxKeys
        /\ thr[t].outcome = "quota"
        /\ thr[t].result = "None"
        /\ log_queue # <<>>
        /\ log_queue[Len(log_queue)].v = "all_youtube_keys_exhausted"

\* C10  For each service the cursor is a position of the key list whenever
\* the list is not empty, and 0 when no key is configured.
C10_CursorRange ==
    /\ GROQ_API_KEYS # <<>> => current_groq_key_index \in 0..(Len(GROQ_API_KEYS) - 1)
    /\ GROQ_API_KEYS = <<>> => current_groq_key_index = 0
    /\ YOUTUBE_API_KEYS # <<>> => current_yt_key_index \in 0..(YtLen - 1)
    /\ YOUTUBE_API_KEYS = <<>> => current_yt_key_index = 0

\* C10 as stated: 0 <= cursor < len(keys) for both services, in every state.
C10_CursorInRange ==
    /\ 0 <= current_groq_key_index /\ current_groq_key_index < Len(GROQ_API_KEYS)
    /\ 0 <= current_yt_key_index /\ current_yt_key_index < Len(YOUTUBE_API_KEYS)

C10_Witness ==
    /\ Len(GROQ_API_KEYS) = MaxKeys
    /\ YtLen = MaxKeys
    /\ current_groq_key_index = 0
    /\ current_yt_key_index = MaxKeys - 1
    /\ \E t \in Threads :
         /\ thr[t].pc = "h_gen"
         /\ thr[t].attempt = MaxKeys
         /\ thr[t].keys_tried = 0
         /\ thr[t].slept = COOLDOWN_SLEEP

\* n calls of switch_*_key() in a row from cursor index: the cursor left.
RECURSIVE Advance(_, _, _)
Advance(index, len, n) ==
    IF n = 0 THEN index ELSE Advance(NextIndex(index, len), len, n - 1)

\* From cursor c of a list, L calls of advance build the clients of the
\* keys after c in list order, wrapping, and end on cursor c and its key.
CyclicFrom(keys, c) ==
    LET L == Len(keys) IN
    /\ \A k \in 1..L :
         BuildClient(keys, Advance(c, L, k)) = keys[((c + k) % L) + 1]
    /\ Advance(c, L, L) = c
    /\ BuildClient(keys, Advance(c, L, L)) = BuildClient(keys, c)

\* C11  For every key list of length L >= 1 and every cursor, L calls of
\* advance visit the keys in list order, wrapping, and come back to the
\* same cursor and key; the current client is the key at the cursor; every
\* rotation the clients make is one such advance; the key lists never change.
C11_CyclicRotation ==
    /\ [](\A keys \in {GROQ_API_KEYS, YOUTUBE_API_KEYS} :
            \A c \in 0..(Len(keys) - 1) : CyclicFrom(keys, c))
    /\ [](GROQ_API_KEYS # <<>> => client = GROQ_API_KEYS[current_groq_key_index + 1])
    /\ [](YOUTUBE_API_KEYS # <<>> => youtube = YOUTUBE_API_KEYS[current_yt_key_index + 1])
    /\ [][GROQ_API_KEYS' = GROQ_API_KEYS /\ YOUTUBE_API_KEYS' = YOUTUBE_API_KEYS]_vars
    /\ [][\A t \in Threads :
            (/\ thr[t].pc \in GenPcs
             /\ thr'[t].attempt = thr[t].attempt + 1
             /\ thr'[t].outcome = "RateLimitError")
            => current_groq_key_index'
                 = (current_groq_key_index + 1) % Len(GROQ_API_KEYS)]_vars
    /\ [][\A t \in Threads :
            (/\ thr[t].pc \in YtPcs
             /\ thr'[t].attempt = thr[t].attempt + 1
             /\ thr'[t].outcome = "quota"
             /\ Len(YOUTUBE_API_KEYS) > 1)
            => current_yt_key_index'
                 = (current_yt_key_index + 1) % Len(YOUTUBE_API_KEYS)]_vars

C11_Witness ==
    \E t \in Threads :
        /\ thr[t].pc = "h_idle"
        /\ Len(YOUTUBE_API_KEYS) = MaxKeys
        /\ thr[t].attempt = MaxKeys
        /\ thr[t].outcome = "quota"
        /\ current_yt_key_index = 0
        /\ youtube = YOUTUBE_API_KEYS[1]
        /\ current_groq_key_index = MaxKeys - 1

\* Every VideoRef and every solution text of document old is still a
\* VideoRef, a solution text, at the same place of document new.
Kept(old, new) ==
    \A i \in DOMAIN old.units : \A j \in DOMAIN old.units[i] :
        /\ i \in DOMAIN new.units /\ j \in DOMAIN new.units[i]
        /\ old.units[i][j].video = "ref" => new.units[i][j].video = "ref"
        /\ old.units[i][j].solution = "text" => new.units[i][j].solution = "text"

\* C12  A VideoRef or a solution text, once in the document, stays: no step
\* of a run (a client returning None or the empty text, a cancellation)
\* clears or nulls it in memory, no save clears it in the output snapshot,
\* the snapshot is not removed, and a later run that finds the snapshot
\* starts from a document that has it.
C12_NoRollback ==
    /\ [][\A t \in Threads :
            (thr[t].data.kind = "doc" /\ thr'[t].data.kind = "doc")
            => Kept(thr[t].data, thr'[t].data)]_vars
    /\ [][output_json.kind = "doc"
            => (output_json'.kind = "doc" /\ Kept(output_json, output_json'))]_vars
    /\ [][\A t \in Threads :
            (/\ thr[t].data.kind # "doc" /\ thr'[t].data.kind = "doc"
             /\ output_json.kind = "doc")
            => Kept(output_json, thr'[t].data)]_vars

C12_Witness ==
    \E t \in Threads :
        /\ thr[t].pc = "s_after"
        /\ thr[t].result = "empty"
        /\ CurQ(thr[t]).solution = "text"
        /\ CurQ(thr[t]).video = "ref"
        /\ output_json.kind = "doc"

\* The document a run would start from, were the process to end now: the
\* output snapshot if it holds one, else the input (start_processing
\* 466-472).
DiskDoc == IF Truthy(load_json_file(output_json)) THEN output_json
           ELSE load_json_file(input_json)

\* The question fields of the in-memory document that the disk does not
\* hold with the same value.
Unsaved(mem, disk) ==
    { x \in (DOMAIN mem.units) \X (1..SumLen(mem.units)) \X {"video", "solution"} :
        /\ x[2] \in DOMAIN mem.units[x[1]]
        /\ mem.units[x[1]][x[2]][x[3]] # disk.units[x[1]][x[2]][x[3]] }

\* C13  At every point of a run the snapshot on disk differs from the
\* document in memory by at most one question field.
C13_SnapshotFresh ==
    \A t \in Threads :
        (thr[t].data.kind = "doc" /\ DiskDoc.kind = "doc")
        => Cardinality(Unsaved(thr[t].data, DiskDoc)) <= 1

\* A document in which no question has a video or a solution field.
IsFresh(d) ==
    /\ d.kind = "doc"
    /\ \A i \in DOMAIN d.units : \A j \in DOMAIN d.units[i] : d.units[i][j] = FreshQ

\* What both steps leave in a question when no external call fails: no
\* field without a Groq client, an explicit null video without a YouTube
\* client.
NominalResult ==
    Question(IF client = NoKey THEN "missing" ELSE IF youtube = NoKey THEN "null" ELSE "ref",
             IF client = NoKey THEN "missing" ELSE "text")

\* C14  When a checkpoint at place (u, q) of a run on a fresh document has
\* seen the flag, the document the walker returns has no video and no
\* solution field in any question after that place, and holds the results
\* of both steps for every question before it (when no external call has
\* failed: the reference found and the text generated).
C14_CancelledDocument ==
    \A t \in Threads :
        (thr[t].observed /\ thr[t].pc = "sp_save" /\ IsFresh(thr[t].loaded))
        => LET r == thr[t] IN
           \A i \in DOMAIN r.data.units : \A j \in DOMAIN r.data.units[i] :
               /\ (i > r.u \/ (i = r.u /\ j > r.q)) => r.data.units[i][j] = FreshQ
               /\ (i < r.u \/ (i = r.u /\ j < r.q))
                    => /\ r.data.units[i][j].video \in {"ref", "null", "missing"}
                       /\ r.data.units[i][j].solution \in {"text", "missing"}
                       /\ faultsLeft = MaxFaults => r.data.units[i][j] = NominalResult

C14_Witness ==
    \E t \in Threads :
        /\ thr[t].observed /\ thr[t].pc = "sp_save" /\ IsFresh(thr[t].loaded)
        /\ thr[t].u = 2 /\ thr[t].q = 0
        /\ Len(thr[t].data.units) = 2
        /\ Len(thr[t].data.units[1]) = 1
        /\ thr[t].data.units[1][1] = Question("ref", "text")
        /\ thr[t].data.units[2][1] = FreshQ

\* The shape of a document: the number of questions of each unit.
Shape(d) == [i \in DOMAIN d.units |-> Len(d.units[i])]

\* C15  A worker run started after an upload loads the uploaded document,
\* or a snapshot of it, never a snapshot of the document before the upload.
C15_UploadForcesFreshRun ==
    \A t \in Threads :
        (thr[t].started_with \in UploadBodies /\ thr[t].source # "none")
        => Shape(thr[t].loaded) = Shape(thr[t].started_with)

\* C16  The walker is invoked only on a document: the output snapshot when
\* it holds one, else the input snapshot; a run whose load yields no
\* document never enters the walker, makes no external call, writes no
\* snapshot and ends with exactly one sentinel.
C16_LoadPolicy ==
    \A t \in Threads :
        /\ thr[t].pc = "ps_start"
             => /\ thr[t].data.kind = "doc"
                /\ thr[t].data = (IF output_json.kind = "doc" THEN output_json
                                  ELSE input_json)
        /\ (thr[t].pc = "dead" /\ thr[t].source = "none")
             => (~thr[t].walked /\ thr[t].ncalls = 0 /\ ~thr[t].saved /\ thr[t].ndone = 1)

\* Messages of kind k and value v in a sequence of queue messages.
CountMsg(ms, k, v) == Cardinality({ i \in 1..Len(ms) : ms[i].k = k /\ ms[i].v = v })

\* Questions of a document whose video field is missing or null.
WithoutVideo(d) ==
    Cardinality({ x \in (DOMAIN d.units) \X (1..SumLen(d.units)) :
                    /\ x[2] \in DOMAIN d.units[x[1]]
                    /\ ~HasField(d.units[x[1]][x[2]].video) })

\* C17  A walk that no checkpoint has cut short ends with exactly one final
\* status, having visited every question once, started the video step once
\* for every question that had no video and the solution step once for
\* every question, whatever the clients returned on the way.
C17_FailureIsolation ==
    \A t \in Threads :
        (thr[t].pc = "sp_save" /\ thr[t].walked /\ ~thr[t].observed)
        => LET total == count_total_questions(thr[t].data) IN
           /\ thr[t].nstatus = 1
           /\ ~stop_event => thr[t].status = "Complete"
           /\ CountMsg(log_queue, "q_details", "text") = total
           /\ CountMsg(log_queue, "active_step", "Generating Query")
                = WithoutVideo(thr[t].loaded)
           /\ CountMsg(log_queue, "active_step", "Generating Solution") = total

C17_Witness ==
    \E t \in Threads :
        /\ thr[t].pc = "sp_save" /\ thr[t].walked /\ ~thr[t].observed
        /\ youtube = NoKey /\ client # NoKey
        /\ faultsLeft = 0
        /\ thr[t].status = "Complete"
        /\ Len(thr[t].data.units) = 2
        /\ Len(thr[t].data.units[1]) = 1
        /\ thr[t].data.units[1][1] = Question("null", "missing")
        /\ thr[t].data.units[2][1] = Question("null", "text")

\* A document with at least one question in which every question has a
\* solution.
AllSolved(d) ==
    /\ d.kind = "doc"
    /\ SumLen(d.units) > 0
    /\ \A i \in DOMAIN d.units : \A j \in DOMAIN d.units[i] :
         d.units[i][j].solution = "text"

\* A walk over an already solved document that no checkpoint has cut short.
SolvedWalkDone(t) ==
    /\ thr[t].pc = "sp_save" /\ thr[t].walked /\ ~thr[t].observed
    /\ AllSolved(thr[t].loaded)

\* C18  With FORCE_REGENERATE_SOLUTIONS on, a walk over an already solved
\* document that is not cut short starts the solution generation once for
\* every question; each question's solution is assigned once when its
\* generation returned text and is left as it was when it returned nothing,
\* so every question still has a solution.
C18_ForceRegenerate ==
    \A t \in Threads :
        SolvedWalkDone(t)
        => LET total == count_total_questions(thr[t].data) IN
           /\ CountMsg(log_queue, "active_step", "Generating Solution") = total
           /\ CountMsg(log_queue, "q_details", "charCount")
                + CountMsg(log_queue, "text", "failed_to_generate_solution") = total
           /\ AllSolved(thr[t].data)

\* C18 as stated: every solution field is overwritten exactly once.
C18_EveryFieldOverwritten ==
    \A t \in Threads :
        SolvedWalkDone(t)
        => /\ CountMsg(log_queue, "active_step", "Generating Solution")
                = count_total_questions(thr[t].data)
           /\ CountMsg(log_queue, "q_details", "charCount")
                = count_total_questions(thr[t].data)

C18_Witness ==
    \E t \in Threads :
        /\ SolvedWalkDone(t)
        /\ thr[t].source = "output"
        /\ count_total_questions(thr[t].data) = 2
        /\ CountMsg(log_queue, "q_details", "charCount") = 2

\* Thread t executes the first statement of start_processing.
ClearStep(t) == thr[t].pc = "sp_clear" /\ thr'[t].pc = "sp_exists"

C20_GenericErrorFrame ==
    [][\A t \in Threads :
         (/\ thr[t].pc \in GenPcs
          /\ thr'[t].attempt = thr[t].attempt + 1
          /\ thr'[t].outcome = "Exception")
         => /\ current_groq_key_index' = current_groq_key_index
            /\ client' = client
            /\ GROQ_API_KEYS' = GROQ_API_KEYS
            /\ thr'[t].keys_tried = thr[t].keys_tried
            /\ thr'[t].slept = ERROR_SLEEP
            /\ thr'[t].pc = thr[t].pc
            /\ thr'[t].result = thr[t].result
            /\ CountKind(log_queue', "api_key") = CountKind(log_queue, "api_key")]_vars

C20_Witness ==
    \E t \in Threads :
        /\ thr[t].pc = "h_gen"
        /\ thr[t].outcome = "Exception"
        /\ thr[t].slept = ERROR_SLEEP
        /\ thr[t].keys_tried = 1
        /\ thr[t].attempt = 3
        /\ current_groq_key_index = 1
        /\ Len(GROQ_API_KEYS) = MaxKeys

\* The video field of the question thread t is working on.
VideoOf(r) == r.data.units[r.u][r.q].video

\* The search of the current question made at least one call and its last
\* call answered with an empty item list ("if not items: return None").
SearchedNoMatch(r) == r.attempt > 0 /\ r.outcome = "noitems"

\* C21  After the video step, video is an explicit null only if a search
\* was made and returned no match: the step that writes the null follows a
\* search whose last call answered with no items (not an API error, not
\* key exhaustion, not a search that never called); and when the query
\* generation failed, no search is made and the field stays as it was.
C21_VideoStates ==
    /\ [][\A t \in Threads :
            (/\ thr[t].pc = "v_set"
             /\ thr'[t].pc = "sol_chk"
             /\ VideoOf(thr'[t]) = "null")
            => SearchedNoMatch(thr[t])]_vars
    /\ [][\A t \in Threads :
            (/\ thr[t].pc = "q_after"
             /\ thr'[t].pc = "sol_chk")
            => /\ thr'[t].ncalls = thr[t].ncalls
               /\ thr'[t].data = thr[t].data]_vars

\* C22  A Stop handled while a worker is alive is not lost: from that Stop
\* until the worker exits (or the process ends) the cancellation flag
\* stays set, whatever the worker was doing when the Stop arrived, its own
\* first statements included.
C22_StopNeverLost ==
    \A t \in Threads :
        (hostAlive /\ Alive(t) /\ thr[t].stop_requested) => stop_event

=============================================================================
